---- MODULE Spec2Model ----
(***************************************************************************)
(* A model of heyman's query orchestration pipeline: the cache store       *)
(* (internal/cache), the query executor and the provider adapters'         *)
(* streaming hand-off (internal/cli/query_executor.go, internal/llm), the  *)
(* response parser (package parser) and the orchestration in               *)
(* internal/cli/commands.go.                                               *)
(*                                                                         *)
(* Go strings are sequences of one-character strings, so that trimming,    *)
(* splitting, prefix tests and the JSON encoding act on their characters.  *)
(***************************************************************************)
EXTENDS Integers, Sequences, FiniteSets, TLC

VARIABLES
    files,      \* the cache directory: fingerprint -> file content
    now,        \* the wall clock, in whole days
    pc,         \* position of the one query the process runs (run)
    query,      \* the invocation's inputs: command, question, model, flags
    resp,       \* run's resp: what queryWithCache returned
    retryResp,  \* parseAndValidate's retryResp
    parsed,     \* parseAndValidate's parsed
    outcome,    \* how run ended: "none", "ok" or the error it returned
    calls,      \* the provider calls issued for this query, in order
    sets,       \* the responses passed to Cache.Set for this query, in order
    origin,     \* where resp came from: "none", "cache" or "provider"
    handed,     \* the cache directory as it was when parseAndValidate began
    nQueries,   \* invocations started so far
    cacheOp,    \* the last cache operation applied directly and its result
    keyPair,    \* two (command, question, model) triples given to GenerateKey
    stream,     \* the streaming hand-off: producer, channels and consumer
    parseCall,  \* a call of Parser.Parse: its arguments and its result
    race        \* cache operations of concurrent invocations on one fingerprint

vars == <<files, now, pc, query, resp, retryResp, parsed, outcome, calls,
          sets, origin, handed, nQueries, cacheOp, keyPair, stream, parseCall, race>>

-----------------------------------------------------------------------------
(* Bounds of the model. *)

\* invocations of the program in one behaviour
MaxQueries == 2
\* the clock runs over the days 0..MaxDay
MaxDay == 2
\* cache operations applied in one behaviour of SpecCache
MaxCacheOps == 2
\* backend events of one streaming call
MaxEvents == 3
\* pieces a raw text given to the parser is made of
MaxPieces == 5
\* cache operations that run at the same time on one fingerprint
MaxRacers == 2

-----------------------------------------------------------------------------
(* Strings: package strings, as the sources use it. *)

\* unicode.IsSpace, on the characters of the model
WhiteSpace == {" ", "\t", "\n", "\r"}

\* the regexp class [a-z]
LowerCase == {"a", "b", "c", "d", "e", "f", "g", "h", "i", "j", "k", "l", "m",
              "n", "o", "p", "q", "r", "s", "t", "u", "v", "w", "x", "y", "z"}

RECURSIVE TrimLeft(_)
TrimLeft(s) ==
    IF s # <<>> /\ Head(s) \in WhiteSpace THEN TrimLeft(Tail(s)) ELSE s

RECURSIVE TrimRight(_)
TrimRight(s) ==
    IF s # <<>> /\ s[Len(s)] \in WhiteSpace
    THEN TrimRight(SubSeq(s, 1, Len(s) - 1))
    ELSE s

\* strings.TrimSpace
TrimSpace(s) == TrimRight(TrimLeft(s))

\* strings.HasPrefix
HasPrefix(s, p) == Len(s) >= Len(p) /\ SubSeq(s, 1, Len(p)) = p

\* strings.HasSuffix
HasSuffix(s, p) ==
    Len(s) >= Len(p) /\ SubSeq(s, Len(s) - Len(p) + 1, Len(s)) = p

\* strings.TrimPrefix
TrimPrefix(s, p) == IF HasPrefix(s, p) THEN SubSeq(s, Len(p) + 1, Len(s)) ELSE s

\* strings.TrimSuffix
TrimSuffix(s, p) == IF HasSuffix(s, p) THEN SubSeq(s, 1, Len(s) - Len(p)) ELSE s

\* strings.Contains
Contains(s, sub) ==
    \E i \in 0..(Len(s) - Len(sub)) : SubSeq(s, i + 1, i + Len(sub)) = sub

\* the index of the first "\n" of s, or 0
RECURSIVE IndexNewline(_, _)
IndexNewline(s, i) ==
    IF i > Len(s) THEN 0
    ELSE IF s[i] = "\n" THEN i
    ELSE IndexNewline(s, i + 1)

\* strings.Split(s, "\n"): always at least one line
RECURSIVE SplitLines(_)
SplitLines(s) ==
    LET i == IndexNewline(s, 1) IN
    IF i = 0 THEN <<s>>
    ELSE <<SubSeq(s, 1, i - 1)>> \o SplitLines(SubSeq(s, i + 1, Len(s)))

\* strings.Join(lines, "\n")
RECURSIVE JoinLines(_)
JoinLines(lines) ==
    IF lines = <<>> THEN <<>>
    ELSE IF Len(lines) = 1 THEN lines[1]
    ELSE lines[1] \o <<"\n">> \o JoinLines(Tail(lines))

-----------------------------------------------------------------------------
(* The response parser (package parser). *)

\* the refusal sentinel of parseDefaultMode and parseExplainMode
RefusalPhrase ==
    <<"c", "a", "n", "n", "o", "t", " ", "f", "i", "n", "d", " ",
      "t", "h", "i", "s", " ", "i", "n", "f", "o", "r", "m", "a", "t", "i", "o", "n", " ",
      "i", "n", " ", "t", "h", "e", " ", "m", "a", "n", " ", "p", "a", "g", "e">>

\* the backquote character, written out
Backquote == "BACKQUOTE"

\* the three backquotes of a markdown code fence
Fence == <<Backquote, Backquote, Backquote>>

RECURSIVE SkipLower(_, _)
SkipLower(s, i) ==
    IF i <= Len(s) /\ s[i] \in LowerCase THEN SkipLower(s, i + 1) ELSE i

\* where a match of (?m)^FENCE[a-z]*\n starting at i ends, or 0 when there is none
FenceOpenEnd(s, i) ==
    IF (i = 1 \/ s[i - 1] = "\n") /\ i + 2 <= Len(s) /\ SubSeq(s, i, i + 2) = Fence
    THEN LET j == SkipLower(s, i + 3) IN
         IF j <= Len(s) /\ s[j] = "\n" THEN j ELSE 0
    ELSE 0

\* ReplaceAllString of (?m)^FENCE[a-z]*\n by "", from position i on
RECURSIVE RemoveFenceOpen(_, _)
RemoveFenceOpen(s, i) ==
    IF i > Len(s) THEN <<>>
    ELSE LET e == FenceOpenEnd(s, i) IN
         IF e # 0 THEN RemoveFenceOpen(s, e + 1)
         ELSE <<s[i]>> \o RemoveFenceOpen(s, i + 1)

\* whether (?m)\nFENCE$ matches at i
FenceCloseAt(s, i) ==
    /\ i + 3 <= Len(s)
    /\ s[i] = "\n"
    /\ SubSeq(s, i + 1, i + 3) = Fence
    /\ (i + 3 = Len(s) \/ s[i + 4] = "\n")

\* ReplaceAllString of (?m)\nFENCE$ by "", from position i on
RECURSIVE RemoveFenceClose(_, _)
RemoveFenceClose(s, i) ==
    IF i > Len(s) THEN <<>>
    ELSE IF FenceCloseAt(s, i) THEN RemoveFenceClose(s, i + 4)
    ELSE <<s[i]>> \o RemoveFenceClose(s, i + 1)

stripMarkdownCodeBlocks(s) ==
    LET a == RemoveFenceOpen(s, 1)
        b == RemoveFenceClose(a, 1)
        c == TrimPrefix(b, <<Backquote>>)
        d == TrimSuffix(c, <<Backquote>>)
    IN  TrimSpace(d)

NoError == "nil"
ErrNotFound == "information not found in man page"
ErrNoPrefix == "response does not start with command"
ErrMultiLine == "response contains multiple lines without valid command"
ErrNoCommand == "no command found in response"

\* an invalid result that carries no error
InvalidWithoutError(e) ==
    [Command |-> <<>>, Explanation |-> <<>>, Valid |-> FALSE, Error |-> NoError]

Invalid(e) == [Command |-> <<>>, Explanation |-> <<>>, Valid |-> FALSE, Error |-> e]

\* a loop that takes the whole response as the command
FirstCommandLineWhole(lines, commandName) ==
    [Command |-> JoinLines(lines), Explanation |-> <<>>, Valid |-> TRUE, Error |-> NoError]

\* the loop of parseDefaultMode over the lines: the first non-empty trimmed line
\* that starts with the command name
RECURSIVE FirstCommandLine(_, _)
FirstCommandLine(lines, commandName) ==
    IF lines = <<>> THEN Invalid(ErrMultiLine)
    ELSE LET line == TrimSpace(Head(lines)) IN
         IF line # <<>> /\ HasPrefix(line, commandName)
         THEN [Command |-> line, Explanation |-> <<>>, Valid |-> TRUE, Error |-> NoError]
         ELSE FirstCommandLine(Tail(lines), commandName)

parseDefaultMode(commandName, response0) ==
    IF Contains(response0, RefusalPhrase) THEN Invalid(ErrNotFound)
    ELSE LET response == TrimSpace(stripMarkdownCodeBlocks(response0)) IN
         IF ~HasPrefix(response, commandName) THEN Invalid(ErrNoPrefix)
         ELSE LET lines == SplitLines(response) IN
              IF Len(lines) > 1 THEN FirstCommandLine(lines, commandName)
              ELSE [Command |-> response, Explanation |-> <<>>,
                    Valid |-> TRUE, Error |-> NoError]

\* the first loop of parseExplainMode, from line i on: the command and
\* explanationStart (as an index into lines, which start at 1), or no command
RECURSIVE FindCommand(_, _, _)
FindCommand(lines, i, commandName) ==
    IF i > Len(lines) THEN [command |-> <<>>, explanationStart |-> 1]
    ELSE LET trimmed == TrimSpace(lines[i]) IN
         IF trimmed = <<>> THEN FindCommand(lines, i + 1, commandName)
         ELSE LET line == TrimSpace(stripMarkdownCodeBlocks(trimmed)) IN
              IF HasPrefix(line, commandName)
              THEN [command |-> line, explanationStart |-> i + 1]
              ELSE FindCommand(lines, i + 1, commandName)

\* a second loop that collects nothing
ExplanationLinesNone(lines, i) == <<>>

\* the second loop of parseExplainMode: the non-empty trimmed lines from i on
RECURSIVE ExplanationLines(_, _)
ExplanationLines(lines, i) ==
    IF i > Len(lines) THEN <<>>
    ELSE LET line == TrimSpace(lines[i]) IN
         IF line # <<>> THEN <<line>> \o ExplanationLines(lines, i + 1)
         ELSE ExplanationLines(lines, i + 1)

\* a parseExplainMode that looks for the command before the refusal sentinel
parseExplainModeFormatFirst(commandName, response) ==
    LET lines == SplitLines(response)
        found == FindCommand(lines, 1, commandName)
    IN  IF found.command # <<>>
        THEN [Command |-> found.command,
              Explanation |-> JoinLines(ExplanationLines(lines, found.explanationStart)),
              Valid |-> TRUE, Error |-> NoError]
        ELSE IF Contains(response, RefusalPhrase) THEN Invalid(ErrNotFound)
        ELSE Invalid(ErrNoCommand)

parseExplainMode(commandName, response) ==
    IF Contains(response, RefusalPhrase) THEN Invalid(ErrNotFound)
    ELSE LET lines == SplitLines(response)
             found == FindCommand(lines, 1, commandName)
         IN  IF found.command = <<>> THEN Invalid(ErrNoCommand)
             ELSE [Command |-> found.command,
                   Explanation |-> JoinLines(ExplanationLines(lines, found.explanationStart)),
                   Valid |-> TRUE, Error |-> NoError]

\* Parser.Parse, of the parser New(commandName, explainMode)
Parse(commandName, explainMode, response) ==
    IF explainMode THEN parseExplainMode(commandName, TrimSpace(response))
    ELSE parseDefaultMode(commandName, TrimSpace(response))

-----------------------------------------------------------------------------
(* The cache store (package cache). *)

\* sha256.Sum256 rendered with %x, taken as injective on the string it hashes:
\* the digest stands for that string
Sha256Hex(data) == data

GenerateKey(command, question, model) ==
    Sha256Hex(command \o <<":">> \o question \o <<":">> \o model)

\* a byte that is not valid UTF-8, and the rune encoding/json writes in its place
InvalidByte == "BYTE_FF"
ReplacementChar == "U+FFFD"

\* how encoding/json writes a Go string: coerced to valid UTF-8
jsonString(s) ==
    [i \in 1..Len(s) |-> IF s[i] = InvalidByte THEN ReplacementChar ELSE s[i]]

\* a nil *llm.QueryResponse, JSON null
Nil == [nil |-> TRUE]

IsNil(r) == "nil" \in DOMAIN r

\* the content of a cache file: none, bytes that do not decode to an Entry,
\* or the JSON document of an Entry
Absent == [kind |-> "absent"]
Garbage == [kind |-> "garbage"]

\* json.MarshalIndent(entry, "", "  ")
MarshalIndent(entry) ==
    [kind |-> "json",
     key |-> jsonString(entry.Key),
     command |-> jsonString(entry.Command),
     question |-> jsonString(entry.Question),
     model |-> jsonString(entry.Model),
     response |->
        IF IsNil(entry.Response) THEN Nil
        ELSE [Content |-> jsonString(entry.Response.Content),
              TokensInput |-> entry.Response.TokensInput,
              TokensOutput |-> entry.Response.TokensOutput,
              Model |-> jsonString(entry.Response.Model),
              Provider |-> jsonString(entry.Response.Provider),
              Cached |-> entry.Response.Cached],
     created_at |-> entry.CreatedAt,
     accessed_at |-> entry.AccessedAt,
     access_count |-> entry.AccessCount]

\* json.Unmarshal(data, &entry)
Unmarshal(data) ==
    IF data.kind # "json" THEN [err |-> TRUE]
    ELSE [err |-> FALSE,
          entry |-> [Key |-> data.key,
                     Command |-> data.command,
                     Question |-> data.question,
                     Model |-> data.model,
                     Response |-> data.response,
                     CreatedAt |-> data.created_at,
                     AccessedAt |-> data.accessed_at,
                     AccessCount |-> data.access_count]]

\* time.Duration is an int64 of nanoseconds. One day, 24 * time.Hour, is
\* 2^16 * DayUnits nanoseconds, so every product below is a multiple of 2^16 ns
\* and int64 wrap-around at 2^64 ns is wrap-around at 2^48 units of 2^16 ns.
\* Numbers of units are held as four limbs of 12 bits, least significant first.
DayUnits == 1318359375

LimbBase == 2^12

Limbs(n) ==
    <<n % LimbBase, (n \div LimbBase) % LimbBase,
      (n \div (LimbBase * LimbBase)) % LimbBase, 0>>

\* a * b modulo 2^48
MulWrap(a, b) ==
    LET c1 == a[1] * b[1]
        c2 == a[1] * b[2] + a[2] * b[1] + (c1 \div LimbBase)
        c3 == a[1] * b[3] + a[2] * b[2] + a[3] * b[1] + (c2 \div LimbBase)
        c4 == a[1] * b[4] + a[2] * b[3] + a[3] * b[2] + a[4] * b[1] + (c3 \div LimbBase)
    IN  <<c1 % LimbBase, c2 % LimbBase, c3 % LimbBase, c4 % LimbBase>>

\* the sign of a 48-bit two's complement number
IsNegative(a) == a[4] >= LimbBase \div 2

\* a > b, for non-negative a and b
GreaterLimbs(a, b) ==
    \E i \in 1..4 : a[i] > b[i] /\ \A j \in (i + 1)..4 : a[j] = b[j]

\* time.Duration(maxAgeDays) * 24 * time.Hour, in units of 2^16 ns
MaxAgeDuration(maxAgeDays) == MulWrap(Limbs(maxAgeDays), Limbs(DayUnits))

\* Cache.isExpired at time t, for an entry created at createdAt <= t:
\* time.Now().After(createdAt.Add(d)) is t - createdAt > d
isExpired(maxAgeDays, createdAt, t) ==
    IF maxAgeDays <= 0 THEN FALSE
    ELSE LET d == MaxAgeDuration(maxAgeDays)
             age == MulWrap(Limbs(t - createdAt), Limbs(DayUnits))
         IN  IsNegative(d) \/ GreaterLimbs(age, d)

\* what the write of saveEntry can do: succeed, fail before the file is opened
\* (the file stays as it was), or fail after os.WriteFile truncated the file
WriteOutcomes == {"ok", "fail", "torn"}

\* a saveEntry that reports success without writing the file
saveEntryNoWrite(fs, entry, w) == [files |-> fs, err |-> FALSE]

\* Cache.saveEntry
saveEntry(fs, entry, w) ==
    CASE w = "ok" -> [files |-> [fs EXCEPT ![entry.Key] = MarshalIndent(entry)], err |-> FALSE]
      [] w = "fail" -> [files |-> fs, err |-> TRUE]
      [] w = "torn" -> [files |-> [fs EXCEPT ![entry.Key] = Garbage], err |-> TRUE]

\* a Get that forgets to mark the response
MarkCachedForgotten(response) == response

\* Cache.Get marks the response it returns as cached
MarkCached(response) == [response EXCEPT !.Cached = TRUE]

\* an update of the access metadata that also restarts the entry's age
TouchResetsCreated(entry, t) ==
    [entry EXCEPT !.CreatedAt = t, !.AccessedAt = t, !.AccessCount = @ + 1]

\* Cache.Get updates the access metadata of the entry it found
Touch(entry, t) == [entry EXCEPT !.AccessedAt = t, !.AccessCount = @ + 1]

\* Cache.Get of a cache New(maxAgeDays), at time t; branch names the return
\* statement taken
CacheGet(fs, maxAgeDays, t, command, question, model, w) ==
    LET key == GenerateKey(command, question, model)
        data == fs[key]
        miss(b, f) == [files |-> f, response |-> Nil, found |-> FALSE, branch |-> b]
    IN  IF data = Absent THEN miss("unreadable", fs)
        ELSE LET u == Unmarshal(data) IN
             IF u.err THEN miss("undecodable", fs)
             ELSE IF isExpired(maxAgeDays, u.entry.CreatedAt, t)
             THEN miss("expired", [fs EXCEPT ![key] = Absent])
             ELSE IF IsNil(u.entry.Response)
             THEN miss("corrupted", [fs EXCEPT ![key] = Absent])
             ELSE LET entry == Touch(u.entry, t)
                  IN  [files |-> saveEntry(fs, entry, w).files,
                       response |-> MarkCached(entry.Response),
                       found |-> TRUE,
                       branch |-> "hit"]

\* a Set that keeps the creation time and the access count of the entry it
\* overwrites
CacheSetKeepsOld(fs, t, command, question, model, response, w) ==
    LET key == GenerateKey(command, question, model)
        old == Unmarshal(fs[key])
    IN  saveEntry(fs,
                  [Key |-> key,
                   Command |-> command,
                   Question |-> question,
                   Model |-> model,
                   Response |-> response,
                   CreatedAt |-> IF old.err THEN t ELSE old.entry.CreatedAt,
                   AccessedAt |-> t,
                   AccessCount |-> IF old.err THEN 1 ELSE old.entry.AccessCount + 1],
                  w)

\* Cache.Set at time t
CacheSet(fs, t, command, question, model, response, w) ==
    saveEntry(fs,
              [Key |-> GenerateKey(command, question, model),
               Command |-> command,
               Question |-> question,
               Model |-> model,
               Response |-> response,
               CreatedAt |-> t,
               AccessedAt |-> t,
               AccessCount |-> 1],
              w)

-----------------------------------------------------------------------------
(* The inputs of the model. *)

Commands == {<<"l", "s">>}
Questions == {<<"a">>, <<"a", ":", "b">>}
Models == {<<"m">>, <<"b", ":", "m">>}

\* the (command, question, model) triples of the queries
Triples == Commands \X Questions \X Models

\* the cache files the queries can address
AllKeys == {GenerateKey(t[1], t[2], t[3]) : t \in Triples}

\* Provider.Name() of the two adapters
OpenAI == <<"o", "p", "e", "n", "a", "i">>
Ollama == <<"o", "l", "l", "a", "m", "a">>
Providers == {OpenAI, Ollama}

\* what a backend can answer: "ls -l" is a command of ls in both modes, "rm" in
\* neither, and "x\nls" only in explain mode, where a preamble line is skipped
Replies ==
    {[Content |-> <<"l", "s", " ", "-", "l">>, TokensInput |-> 9, TokensOutput |-> 3],
     [Content |-> <<"r", "m">>, TokensInput |-> 8, TokensOutput |-> 1],
     [Content |-> <<"x", "\n", "l", "s">>, TokensInput |-> 7, TokensOutput |-> 2]}

\* the (command, question, model) triples of the queries of the pipeline
QueryTriples == {t \in Triples : t[3] = <<"m">>}

\* the man-page section ParseCommand finds in the arguments: none, or "1"
Sections == {<<>>, <<"1">>}

\* cfg.CacheDays as config.Load sets it
DefaultCacheDays == 30

NoResponse == Nil
NoParse == [Command |-> <<>>, Explanation |-> <<>>, Valid |-> FALSE, Error |-> "unparsed"]
NoQuery == [command |-> <<>>]
NoCacheOp == [n |-> 0, days |-> 0, last |-> [op |-> "none"], prev |-> [op |-> "none"]]
NoKeyPair == [applied |-> FALSE]
NoStream == [ppc |-> "none"]
NoParseCall == [done |-> FALSE]
NoRace == [procs |-> <<>>]

\* the *QueryResponse a provider's Query builds from the backend's reply
ProviderResponse(reply, model, provider) ==
    [Content |-> reply.Content,
     TokensInput |-> reply.TokensInput,
     TokensOutput |-> reply.TokensOutput,
     Model |-> model,
     Provider |-> provider,
     Cached |-> FALSE]

\* the *QueryResponse executeStreamingQuery builds from what it accumulated
StreamedResponse(content, tokenInput, tokenOutput, model, provider) ==
    [Content |-> content,
     TokensInput |-> tokenInput,
     TokensOutput |-> tokenOutput,
     Model |-> model,
     Provider |-> provider,
     Cached |-> FALSE]

\* one provider call, as the model records it
Call(method, err, content) == [method |-> method, err |-> err, content |-> content]

-----------------------------------------------------------------------------
(* The orchestration: run, queryWithCache, parseAndValidate, outputResult. *)

\* one invocation of the program starts: run, up to the call of queryWithCache
Begin ==
    /\ pc \in {"idle", "done"}
    /\ nQueries < MaxQueries
    /\ \E t \in QueryTriples, explain \in BOOLEAN, nocache \in BOOLEAN,
          progress \in BOOLEAN, provider \in Providers, section \in Sections :
          query' = [command |-> t[1], question |-> t[2], model |-> t[3],
                    section |-> section,
                    explain |-> explain, noCache |-> nocache,
                    showProgress |-> progress, provider |-> provider,
                    cacheDays |-> DefaultCacheDays,
                    cancelled |-> FALSE]
    /\ nQueries' = nQueries + 1
    /\ pc' = "get"
    /\ resp' = NoResponse
    /\ retryResp' = NoResponse
    /\ parsed' = NoParse
    /\ outcome' = "none"
    /\ calls' = <<>>
    /\ sets' = <<>>
    /\ origin' = "none"
    /\ handed' = files
    /\ UNCHANGED <<files, now, cacheOp, keyPair, stream, parseCall, race>>

\* a queryWithCache that looks the fingerprint up whatever the no-cache flag is
QwcGetIgnoresNoCache ==
    /\ pc = "get"
    /\ \E w \in WriteOutcomes :
          LET g == CacheGet(files, query.cacheDays, now,
                            query.command, query.question, query.model, w)
          IN  /\ files' = g.files
              /\ IF g.found
                 THEN /\ resp' = g.response
                      /\ origin' = "cache"
                      /\ handed' = g.files
                      /\ pc' = "parse"
                 ELSE /\ pc' = "execute"
                      /\ UNCHANGED <<resp, origin, handed>>
    /\ UNCHANGED <<now, query, retryResp, parsed, outcome, calls, sets,
                   nQueries, cacheOp, keyPair, stream, parseCall, race>>

\* a queryWithCache that serves an entry only to the provider that wrote it
QwcGetSameProviderOnly ==
    /\ pc = "get"
    /\ IF query.noCache
       THEN /\ pc' = "execute"
            /\ UNCHANGED <<files, resp, origin, handed>>
       ELSE \E w \in WriteOutcomes :
            LET g == CacheGet(files, query.cacheDays, now,
                              query.command, query.question, query.model, w)
            IN  IF g.found /\ g.response.Provider = query.provider
                THEN /\ files' = g.files
                     /\ resp' = g.response
                     /\ origin' = "cache"
                     /\ handed' = g.files
                     /\ pc' = "parse"
                ELSE /\ pc' = "execute"
                     /\ UNCHANGED <<files, resp, origin, handed>>
    /\ UNCHANGED <<now, query, retryResp, parsed, outcome, calls, sets,
                   nQueries, cacheOp, keyPair, stream, parseCall, race>>

\* queryWithCache: the cache lookup
QwcGet ==
    /\ pc = "get"
    /\ IF query.noCache
       THEN /\ pc' = "execute"
            /\ UNCHANGED <<files, resp, origin, handed>>
       ELSE \E w \in WriteOutcomes :
            LET g == CacheGet(files, query.cacheDays, now,
                              query.command, query.question, query.model, w)
            IN  /\ files' = g.files
                /\ IF g.found
                   THEN /\ resp' = g.response
                        /\ origin' = "cache"
                        /\ handed' = g.files
                        /\ pc' = "parse"
                   ELSE /\ pc' = "execute"
                        /\ UNCHANGED <<resp, origin, handed>>
    /\ UNCHANGED <<now, query, retryResp, parsed, outcome, calls, sets,
                   nQueries, cacheOp, keyPair, stream, parseCall, race>>

\* the method ExecuteQuery calls on the provider
ExecuteMethod(showProgress) == IF showProgress THEN "StreamQuery" ELSE "Query"

\* queryWithCache: ExecuteQuery answers with a response, the provider's own in
\* blocking mode and the one executeStreamingQuery builds in progressive mode;
\* a call made with a cancelled context is taken to end in an error
QwcExecute ==
    /\ pc = "execute"
    /\ ~query.cancelled
    /\ \E reply \in Replies :
          /\ resp' = IF query.showProgress
                     THEN StreamedResponse(reply.Content, reply.TokensInput,
                                           reply.TokensOutput, query.model, query.provider)
                     ELSE ProviderResponse(reply, query.model, query.provider)
          /\ calls' = Append(calls, Call(ExecuteMethod(query.showProgress), FALSE, reply.Content))
    /\ origin' = "provider"
    /\ pc' = "set"
    /\ UNCHANGED <<files, now, query, retryResp, parsed, outcome, sets, handed,
                   nQueries, cacheOp, keyPair, stream, parseCall, race>>

\* a queryWithCache that answers an error of ExecuteQuery with the strict retry
QwcExecuteErrorRetried ==
    /\ pc = "execute"
    /\ calls' = Append(calls, Call(ExecuteMethod(query.showProgress), TRUE, <<>>))
    /\ outcome' = "LLM query failed"
    /\ pc' = "retry"
    /\ UNCHANGED <<files, now, query, resp, retryResp, parsed, sets, origin, handed,
                   nQueries, cacheOp, keyPair, stream, parseCall, race>>

\* queryWithCache: ExecuteQuery returns an error, and so does run
QwcExecuteError ==
    /\ pc = "execute"
    /\ calls' = Append(calls, Call(ExecuteMethod(query.showProgress), TRUE, <<>>))
    /\ outcome' = "LLM query failed"
    /\ pc' = "done"
    /\ UNCHANGED <<files, now, query, resp, retryResp, parsed, sets, origin, handed,
                   nQueries, cacheOp, keyPair, stream, parseCall, race>>

\* queryWithCache: the response is saved to the cache, and returned whether
\* the write failed or not
QwcSet ==
    /\ pc = "set"
    /\ \E w \in WriteOutcomes :
          LET r == CacheSet(files, now, query.command, query.question, query.model, resp, w)
          IN  /\ files' = r.files
              /\ handed' = r.files
              /\ sets' = Append(sets, [response |-> resp, err |-> r.err])
    /\ pc' = "parse"
    /\ UNCHANGED <<now, query, resp, retryResp, parsed, outcome, calls, origin,
                   nQueries, cacheOp, keyPair, stream, parseCall, race>>

\* a parseAndValidate that gives up without a retry
AfterParseNoRetry(valid, cached) == IF ~valid THEN "done" ELSE "output"

\* a parseAndValidate that retries an invalid cached response too
AfterParseRetryCached(valid, cached) == IF ~valid THEN "retry" ELSE "output"

\* where parseAndValidate goes after the parse of resp.Content
AfterParse(valid, cached) ==
    IF ~valid /\ ~cached THEN "retry"
    ELSE IF ~valid /\ cached THEN "done"
    ELSE "output"

\* parseAndValidate: the parse of the response, and the choice between a retry,
\* the error for an invalid cached response, and the return of parsed
PavParse ==
    /\ pc = "parse"
    /\ LET p == Parse(query.command, query.explain, resp.Content)
           next == AfterParse(p.Valid, resp.Cached)
       IN  /\ parsed' = p
           /\ pc' = next
           /\ outcome' = IF next = "done" THEN "cached response invalid" ELSE outcome
    /\ UNCHANGED <<files, now, query, resp, retryResp, calls, sets, origin, handed,
                   nQueries, cacheOp, keyPair, stream, parseCall, race>>

\* parseAndValidate: the retry with the strict prompt answers with a response;
\* a call made with a cancelled context is taken to end in an error
PavRetry ==
    /\ pc = "retry"
    /\ ~query.cancelled
    /\ \E reply \in Replies :
          /\ retryResp' = ProviderResponse(reply, query.model, query.provider)
          /\ calls' = Append(calls, Call("Query", FALSE, reply.Content))
    /\ pc' = "retryParse"
    /\ UNCHANGED <<files, now, query, resp, parsed, outcome, sets, origin, handed,
                   nQueries, cacheOp, keyPair, stream, parseCall, race>>

\* parseAndValidate: the retry returns an error
PavRetryError ==
    /\ pc = "retry"
    /\ calls' = Append(calls, Call("Query", TRUE, <<>>))
    /\ outcome' = "LLM retry failed"
    /\ pc' = "done"
    /\ UNCHANGED <<files, now, query, resp, retryResp, parsed, sets, origin, handed,
                   nQueries, cacheOp, keyPair, stream, parseCall, race>>

\* a parseAndValidate that caches the original response after the retry
RetryCachedOriginal(first, retry) == first

\* the response parseAndValidate caches after a successful retry
RetryCached(first, retry) == retry

\* parseAndValidate: the parse of the retry response; a valid one is cached
PavRetryParse ==
    /\ pc = "retryParse"
    /\ LET p == Parse(query.command, query.explain, retryResp.Content) IN
       /\ parsed' = p
       /\ IF ~p.Valid
          THEN /\ outcome' = "unable to generate valid command"
               /\ pc' = "done"
               /\ UNCHANGED <<files, sets>>
          ELSE /\ \E w \in WriteOutcomes :
                     LET r == CacheSet(files, now, query.command, query.question,
                                       query.model, RetryCached(resp, retryResp), w)
                     IN  /\ files' = r.files
                         /\ sets' = Append(sets, [response |-> RetryCached(resp, retryResp),
                                                  err |-> r.err])
               /\ pc' = "output"
               /\ UNCHANGED outcome
    /\ UNCHANGED <<now, query, resp, retryResp, calls, origin, handed,
                   nQueries, cacheOp, keyPair, stream, parseCall, race>>

\* run: outputResult prints the command, and run returns nil
OutputResult ==
    /\ pc = "output"
    /\ outcome' = "ok"
    /\ pc' = "done"
    /\ UNCHANGED <<files, now, query, resp, retryResp, parsed, calls, sets, origin,
                   handed, nQueries, cacheOp, keyPair, stream, parseCall, race>>

\* cmd.Context(), the context run hands to every provider call, is cancelled
\* by the caller while the query is under way; no step of run, queryWithCache
\* or parseAndValidate reads ctx.Err() or ctx.Done()
Cancel ==
    /\ pc \notin {"idle", "done"}
    /\ ~query.cancelled
    /\ query' = [query EXCEPT !.cancelled = TRUE]
    /\ UNCHANGED <<files, now, pc, resp, retryResp, parsed, outcome, calls, sets,
                   origin, handed, nQueries, cacheOp, keyPair, stream, parseCall, race>>

\* a day passes
Tick ==
    /\ now < MaxDay
    /\ now' = now + 1
    /\ UNCHANGED <<files, pc, query, resp, retryResp, parsed, outcome, calls, sets,
                   origin, handed, nQueries, cacheOp, keyPair, stream, parseCall, race>>

\* the variables of the orchestration
pipelineVars ==
    <<pc, query, resp, retryResp, parsed, outcome, calls, sets, origin, handed, nQueries>>

\* no invocation has started
PipelineAtRest ==
    /\ pc = "idle"
    /\ query = NoQuery
    /\ resp = NoResponse
    /\ retryResp = NoResponse
    /\ parsed = NoParse
    /\ outcome = "none"
    /\ calls = <<>>
    /\ sets = <<>>
    /\ origin = "none"
    /\ handed = [k \in AllKeys |-> Absent]
    /\ nQueries = 0

\* the program is started on an empty cache directory
Init ==
    /\ files = [k \in AllKeys |-> Absent]
    /\ now = 0
    /\ PipelineAtRest
    /\ cacheOp = NoCacheOp
    /\ keyPair = NoKeyPair
    /\ stream = NoStream
    /\ parseCall = NoParseCall
    /\ race = NoRace

Next ==
    \/ Begin
    \/ QwcGet
    \/ QwcExecute
    \/ QwcExecuteError
    \/ QwcSet
    \/ PavParse
    \/ PavRetry
    \/ PavRetryError
    \/ PavRetryParse
    \/ OutputResult
    \/ Cancel

Spec == Init /\ [][Next]_vars

-----------------------------------------------------------------------------
(* GenerateKey applied to pairs of triples. *)

\* questions and model ids, some of which hold the ':' of a model id such as
\* llama3.2:latest
KeyFields == {<<"a">>, <<"b">>, <<"m">>, <<"a", ":", "b">>, <<"b", ":", "m">>}

KeyTriples == Commands \X KeyFields \X KeyFields

InitKey ==
    /\ files = [k \in AllKeys |-> Absent]
    /\ now = 0
    /\ PipelineAtRest
    /\ cacheOp = NoCacheOp
    /\ stream = NoStream
    /\ parseCall = NoParseCall
    /\ race = NoRace
    /\ \E a \in KeyTriples, b \in KeyTriples :
          keyPair = [applied |-> FALSE, a |-> a, b |-> b]

\* GenerateKey is called on both triples
ApplyGenerateKey ==
    /\ ~keyPair.applied
    /\ keyPair' = [applied |-> TRUE, a |-> keyPair.a, b |-> keyPair.b,
                   keyA |-> GenerateKey(keyPair.a[1], keyPair.a[2], keyPair.a[3]),
                   keyB |-> GenerateKey(keyPair.b[1], keyPair.b[2], keyPair.b[3])]
    /\ UNCHANGED <<files, now, cacheOp, stream, parseCall, race>>
    /\ UNCHANGED pipelineVars

NextKey == ApplyGenerateKey

SpecKey == InitKey /\ [][NextKey]_vars

-----------------------------------------------------------------------------
(* The cache store on its own: Get and Set applied to a cache directory that  *)
(* may hold damaged files, as the days pass.                                  *)

\* the triples the operations address
CacheTriples == {t \in Triples : t[2] = <<"a">>}

\* cfg.CacheDays: never expire (negative, zero), one day, and the first number
\* of days that is more than 2^63 nanoseconds
CacheDaysValues == {-1, 0, 1, 106752}

\* the responses given to Set
CacheResponses ==
    {[Content |-> <<"l", "s">>, TokensInput |-> 9, TokensOutput |-> 3,
      Model |-> <<"m">>, Provider |-> Ollama, Cached |-> FALSE],
     [Content |-> <<"l", "s", " ", InvalidByte>>, TokensInput |-> 8, TokensOutput |-> 4,
      Model |-> <<"m">>, Provider |-> OpenAI, Cached |-> FALSE]}

\* a file that decodes to an entry without a response
NullResponseDoc(t) ==
    MarshalIndent([Key |-> GenerateKey(t[1], t[2], t[3]),
                   Command |-> t[1], Question |-> t[2], Model |-> t[3],
                   Response |-> Nil,
                   CreatedAt |-> 0, AccessedAt |-> 0, AccessCount |-> 1])

InitCache ==
    /\ \E damaged \in [CacheTriples -> {"absent", "garbage", "null"}] :
          files = [k \in AllKeys |->
                     IF \E t \in CacheTriples :
                           k = GenerateKey(t[1], t[2], t[3]) /\ damaged[t] = "garbage"
                     THEN Garbage
                     ELSE IF \E t \in CacheTriples :
                                k = GenerateKey(t[1], t[2], t[3]) /\ damaged[t] = "null"
                     THEN NullResponseDoc(CHOOSE t \in CacheTriples :
                                             k = GenerateKey(t[1], t[2], t[3]))
                     ELSE Absent]
    /\ now = 0
    /\ PipelineAtRest
    /\ \E days \in CacheDaysValues :
          cacheOp = [n |-> 0, days |-> days, last |-> [op |-> "none"], prev |-> [op |-> "none"]]
    /\ keyPair = NoKeyPair
    /\ stream = NoStream
    /\ parseCall = NoParseCall
    /\ race = NoRace

\* Cache.Get is called
CacheGetOp ==
    /\ cacheOp.n < MaxCacheOps
    /\ \E t \in CacheTriples, w \in WriteOutcomes :
          LET k == GenerateKey(t[1], t[2], t[3])
              g == CacheGet(files, cacheOp.days, now, t[1], t[2], t[3], w)
          IN  /\ files' = g.files
              /\ cacheOp' = [n |-> cacheOp.n + 1,
                             days |-> cacheOp.days,
                             prev |-> cacheOp.last,
                             last |-> [op |-> "Get", triple |-> t, at |-> now,
                                       before |-> files[k], after |-> g.files[k],
                                       found |-> g.found, response |-> g.response,
                                       branch |-> g.branch,
                                       write |-> IF g.found THEN w ELSE "none"]]
    /\ UNCHANGED <<now, keyPair, stream, parseCall, race>>
    /\ UNCHANGED pipelineVars

\* Cache.Set is called
CacheSetOp ==
    /\ cacheOp.n < MaxCacheOps
    /\ \E t \in CacheTriples, r \in CacheResponses, w \in WriteOutcomes :
          LET k == GenerateKey(t[1], t[2], t[3])
              res == CacheSet(files, now, t[1], t[2], t[3], r, w)
          IN  /\ files' = res.files
              /\ cacheOp' = [n |-> cacheOp.n + 1,
                             days |-> cacheOp.days,
                             prev |-> cacheOp.last,
                             last |-> [op |-> "Set", triple |-> t, at |-> now,
                                       before |-> files[k], after |-> res.files[k],
                                       response |-> r, err |-> res.err]]
    /\ UNCHANGED <<now, keyPair, stream, parseCall, race>>
    /\ UNCHANGED pipelineVars

NextCache ==
    \/ CacheGetOp
    \/ CacheSetOp
    \/ Tick

SpecCache == InitCache /\ [][NextCache]_vars

-----------------------------------------------------------------------------
(* Progressive mode: the producer goroutine of StreamQuery, its two channels   *)
(* and executeStreamingQuery, the consumer.                                    *)

\* what a backend sends during one streaming call: a piece of text, an empty
\* piece, and the report of the token counts (Ollama's response with Done set,
\* OpenAI's chunk that carries the usage)
BackendEvents ==
    {[type |-> "content", text |-> <<"l", "s">>],
     [type |-> "content", text |-> <<>>],
     [type |-> "done", tokensIn |-> 9, tokensOut |-> 3]}

\* the sequences of at most n backend events
RECURSIVE EventSeqs(_)
EventSeqs(n) ==
    IF n = 0 THEN {<<>>}
    ELSE EventSeqs(n - 1)
         \cup {Append(q, e) : q \in {x \in EventSeqs(n - 1) : Len(x) = n - 1},
                              e \in BackendEvents}

NoChunk == [none |-> TRUE]

\* the StreamChunk with the content of a backend event
ContentChunk(text) ==
    [Content |-> text, IsComplete |-> FALSE, TokensInput |-> 0, TokensOutput |-> 0]

\* the StreamChunk that ends a stream
TerminalChunk(tokensIn, tokensOut) ==
    [Content |-> <<>>, IsComplete |-> TRUE,
     TokensInput |-> tokensIn, TokensOutput |-> tokensOut]

\* the texts of the backend events, concatenated in their order
RECURSIVE ConcatText(_)
ConcatText(events) ==
    IF events = <<>> THEN <<>>
    ELSE (IF Head(events).type = "content" THEN Head(events).text ELSE <<>>)
         \o ConcatText(Tail(events))

\* the token counts of the last backend event that reports them, or zero
RECURSIVE LastTokens(_)
LastTokens(events) ==
    IF events = <<>> THEN [tokensIn |-> 0, tokensOut |-> 0]
    ELSE IF events[Len(events)].type = "done"
         THEN [tokensIn |-> events[Len(events)].tokensIn,
               tokensOut |-> events[Len(events)].tokensOut]
         ELSE LastTokens(SubSeq(events, 1, Len(events) - 1))

\* OllamaProvider.Query on a backend that sends events and then fails or not:
\* the callback adds up the contents and keeps the counts of a response with
\* Done set; an error of client.Chat is the result
OllamaQuery(events, fail, model) ==
    IF fail THEN [kind |-> "error", cause |-> "Ollama API error"]
    ELSE [kind |-> "response",
          response |-> ProviderResponse(
              [Content |-> ConcatText(events),
               TokensInput |-> LastTokens(events).tokensIn,
               TokensOutput |-> LastTokens(events).tokensOut], model, Ollama)]

\* OpenAIProvider.Query on a backend that generates the same text and usage in
\* one completion, or fails
OpenAIQuery(events, fail, model) ==
    IF fail THEN [kind |-> "error", cause |-> "OpenAI API error"]
    ELSE [kind |-> "response",
          response |-> ProviderResponse(
              [Content |-> ConcatText(events),
               TokensInput |-> LastTokens(events).tokensIn,
               TokensOutput |-> LastTokens(events).tokensOut], model, OpenAI)]

\* provider.Query, as ExecuteQuery calls it in blocking mode
BlockingQuery(adapter, events, fail, model) ==
    IF adapter = Ollama THEN OllamaQuery(events, fail, model)
    ELSE OpenAIQuery(events, fail, model)

InitStream ==
    /\ files = [k \in AllKeys |-> Absent]
    /\ now = 0
    /\ PipelineAtRest
    /\ cacheOp = NoCacheOp
    /\ keyPair = NoKeyPair
    /\ parseCall = NoParseCall
    /\ race = NoRace
    /\ \E adapter \in Providers, events \in EventSeqs(MaxEvents), fail \in BOOLEAN,
          progress \in BOOLEAN, supports \in BOOLEAN :
          stream = [adapter |-> adapter,
                    supportsStreaming |-> supports,  \* what SupportsStreaming() returns
                    showProgress |-> progress,       \* opts.ShowProgress
                    method |-> "none",         \* the method ExecuteQuery called
                    cancelled |-> FALSE,       \* ctx was cancelled while the call waited
                    backend |-> events,        \* all the backend sends during the call
                    events |-> events,         \* what the backend has yet to send
                    fail |-> fail,             \* whether the backend ends in an error
                    ppc |-> "unstarted",       \* the producer goroutine's position
                    pending |-> NoChunk,       \* the chunk the producer is sending
                    final |-> FALSE,           \* OpenAI: the pending chunk is the last
                    usageIn |-> 0,             \* OpenAI: acc.Usage
                    usageOut |-> 0,
                    errBuf |-> <<>>,           \* errCh, of capacity 1
                    errClosed |-> FALSE,
                    chunkClosed |-> FALSE,
                    errSent |-> FALSE,         \* the producer has sent on errCh
                    emitted |-> <<>>,          \* the chunks that went through chunkCh
                    cpc |-> "dispatch",        \* the position of ExecuteQuery and
                                               \* of executeStreamingQuery
                    content |-> <<>>,
                    tokenInput |-> 0,
                    tokenOutput |-> 0,
                    firstChunk |-> TRUE,
                    sawComplete |-> FALSE,     \* a chunk with IsComplete was received
                    result |-> [kind |-> "none"]]

\* ExecuteQuery: executeStreamingQuery when opts.ShowProgress is set, where
\* StreamQuery starts the producer goroutine, and provider.Query otherwise; the
\* provider is any implementation of the Provider interface, which the two
\* adapters implement with a SupportsStreaming that returns true
ExecuteQuery ==
    /\ stream.cpc = "dispatch"
    /\ LET method == ExecuteMethod(stream.showProgress) IN
       stream' = IF method = "StreamQuery"
                 THEN [stream EXCEPT !.method = method, !.ppc = "run", !.cpc = "select"]
                 ELSE [stream EXCEPT !.method = method, !.cpc = "returned",
                                     !.result = BlockingQuery(stream.adapter, stream.backend,
                                                              stream.fail, <<"m">>)]
    /\ UNCHANGED <<files, now, cacheOp, keyPair, parseCall, race>>
    /\ UNCHANGED pipelineVars

\* the caller cancels ctx while executeStreamingQuery is blocked in its select,
\* which has no case for ctx.Done(); the backend client, which holds ctx,
\* answers its next read with the context's error
StreamCancel ==
    /\ stream.cpc = "parked"
    /\ ~stream.cancelled
    /\ stream' = [stream EXCEPT !.cancelled = TRUE]
    /\ UNCHANGED <<files, now, cacheOp, keyPair, parseCall, race>>
    /\ UNCHANGED pipelineVars

\* executeStreamingQuery returns the error it received on errCh, wrapped
ReturnError(st, cause) ==
    [st EXCEPT !.cpc = "returned", !.result = [kind |-> "error", cause |-> cause]]

\* executeStreamingQuery leaves the loop and returns the response it built
ReturnResponse(st) ==
    [st EXCEPT !.cpc = "returned",
               !.result = [kind |-> "response",
                           response |-> StreamedResponse(st.content, st.tokenInput,
                                                         st.tokenOutput, <<"m">>, st.adapter)]]

\* executeStreamingQuery: the body of the chunk case, for a chunk it received
Consume(st, chunk) ==
    IF chunk.IsComplete
    THEN ReturnResponse([st EXCEPT !.tokenInput = chunk.TokensInput,
                                   !.tokenOutput = chunk.TokensOutput,
                                   !.sawComplete = TRUE])
    ELSE [st EXCEPT !.firstChunk = FALSE,
                    !.content = st.content \o chunk.Content,
                    !.cpc = "select"]

\* the producer after its send on chunkCh went through
AfterSend(st) ==
    [st EXCEPT !.pending = NoChunk,
               !.emitted = Append(st.emitted, st.pending),
               !.ppc = IF st.final THEN "closeErr" ELSE "run"]

\* the producer takes the next backend event: the callback of client.Chat
\* (Ollama), one turn of the loop over stream.Next (OpenAI)
StreamNextEvent ==
    /\ stream.ppc = "run"
    /\ ~stream.cancelled
    /\ stream.events # <<>>
    /\ LET e == Head(stream.events)
           rest == [stream EXCEPT !.events = Tail(stream.events)]
       IN  stream' =
             IF e.type = "content"
             THEN IF e.text # <<>>
                  THEN [rest EXCEPT !.ppc = "send", !.pending = ContentChunk(e.text)]
                  ELSE rest
             ELSE IF stream.adapter = Ollama
                  THEN [rest EXCEPT !.ppc = "send",
                                    !.pending = TerminalChunk(e.tokensIn, e.tokensOut)]
                  ELSE [rest EXCEPT !.usageIn = e.tokensIn, !.usageOut = e.tokensOut]
    /\ UNCHANGED <<files, now, cacheOp, keyPair, parseCall, race>>
    /\ UNCHANGED pipelineVars

\* the backend ends in an error, or ctx was cancelled: the producer sends the
\* error on errCh, which has room for it, and returns; a consumer blocked in
\* its select receives it at once
StreamFail ==
    /\ stream.ppc = "run"
    /\ \/ stream.cancelled
       \/ stream.events = <<>> /\ stream.fail
    /\ LET sent == [stream EXCEPT !.errSent = TRUE, !.ppc = "closeErr"] IN
       stream' = IF stream.cpc = "parked"
                 THEN ReturnError(sent, "stream error")
                 ELSE [sent EXCEPT !.errBuf = <<"stream error">>]
    /\ UNCHANGED <<files, now, cacheOp, keyPair, parseCall, race>>
    /\ UNCHANGED pipelineVars

\* the backend ends without an error: client.Chat returns nil and the producer
\* returns (Ollama); the producer sends the terminal chunk with the usage the
\* accumulator holds (OpenAI)
StreamEnd ==
    /\ stream.ppc = "run"
    /\ ~stream.cancelled
    /\ stream.events = <<>>
    /\ ~stream.fail
    /\ stream' = IF stream.adapter = Ollama
                 THEN [stream EXCEPT !.ppc = "closeErr"]
                 ELSE [stream EXCEPT !.ppc = "send", !.final = TRUE,
                                     !.pending = TerminalChunk(stream.usageIn, stream.usageOut)]
    /\ UNCHANGED <<files, now, cacheOp, keyPair, parseCall, race>>
    /\ UNCHANGED pipelineVars

\* the producer's send on the unbuffered chunkCh meets a consumer blocked in
\* its select
ChunkHandOff ==
    /\ stream.ppc = "send"
    /\ stream.cpc = "parked"
    /\ stream' = Consume(AfterSend(stream), stream.pending)
    /\ UNCHANGED <<files, now, cacheOp, keyPair, parseCall, race>>
    /\ UNCHANGED pipelineVars

\* the cases of the consumer's select that can proceed
ReadyCases(st) ==
    (IF st.ppc = "send" \/ st.chunkClosed THEN {"chunk"} ELSE {})
    \cup (IF st.errBuf # <<>> \/ st.errClosed THEN {"err"} ELSE {})

\* executeStreamingQuery reaches its select: it blocks when no case can
\* proceed, and otherwise takes one of the cases that can
ConsumerSelect ==
    /\ stream.cpc = "select"
    /\ IF ReadyCases(stream) = {}
       THEN stream' = [stream EXCEPT !.cpc = "parked"]
       ELSE \E c \in ReadyCases(stream) :
               stream' =
                 IF c = "chunk"
                 THEN IF stream.ppc = "send"
                      THEN Consume(AfterSend(stream), stream.pending)
                      ELSE ReturnResponse(stream)
                 ELSE IF stream.errBuf # <<>>
                      THEN ReturnError([stream EXCEPT !.errBuf = <<>>], Head(stream.errBuf))
                      ELSE ReturnError(stream, "nil")
    /\ UNCHANGED <<files, now, cacheOp, keyPair, parseCall, race>>
    /\ UNCHANGED pipelineVars

\* the producer's deferred close(errCh), the first to run; a consumer blocked
\* in its select receives the zero value, a nil error
CloseErrCh ==
    /\ stream.ppc = "closeErr"
    /\ LET closed == [stream EXCEPT !.errClosed = TRUE, !.ppc = "closeChunk"] IN
       stream' = IF stream.cpc = "parked" THEN ReturnError(closed, "nil") ELSE closed
    /\ UNCHANGED <<files, now, cacheOp, keyPair, parseCall, race>>
    /\ UNCHANGED pipelineVars

\* the producer's deferred close(chunkCh), and the end of the goroutine
CloseChunkCh ==
    /\ stream.ppc = "closeChunk"
    /\ LET closed == [stream EXCEPT !.chunkClosed = TRUE, !.ppc = "exited"] IN
       stream' = IF stream.cpc = "parked" THEN ReturnResponse(closed) ELSE closed
    /\ UNCHANGED <<files, now, cacheOp, keyPair, parseCall, race>>
    /\ UNCHANGED pipelineVars

NextStream ==
    \/ ExecuteQuery
    \/ StreamCancel
    \/ StreamNextEvent
    \/ StreamFail
    \/ StreamEnd
    \/ ChunkHandOff
    \/ ConsumerSelect
    \/ CloseErrCh
    \/ CloseChunkCh

SpecStream == InitStream /\ [][NextStream]_vars

-----------------------------------------------------------------------------
(* The response parser on its own: Parse applied to raw texts. *)

\* what the raw texts are made of: the tool name, a blank, a line break, a
\* code fence, a backquote, another word, and the refusal sentinel
Pieces ==
    {<<"l", "s">>, <<" ">>, <<"\n">>, Fence, <<Backquote>>, <<"x">>, RefusalPhrase}

\* the texts made of at most n pieces
RECURSIVE RawTexts(_)
RawTexts(n) ==
    IF n = 0 THEN {<<>>}
    ELSE RawTexts(n - 1) \cup {t \o p : t \in RawTexts(n - 1), p \in Pieces}

\* the tool names given to parser.New
ToolNames == {<<"l", "s">>, <<"x">>}

InitParse ==
    /\ files = [k \in AllKeys |-> Absent]
    /\ now = 0
    /\ PipelineAtRest
    /\ cacheOp = NoCacheOp
    /\ keyPair = NoKeyPair
    /\ stream = NoStream
    /\ race = NoRace
    /\ \E text \in RawTexts(MaxPieces), commandName \in ToolNames, explainMode \in BOOLEAN :
          parseCall = [done |-> FALSE, text |-> text,
                       commandName |-> commandName, explainMode |-> explainMode]

\* parser.New(commandName, explainMode).Parse(text) is called
ApplyParse ==
    /\ ~parseCall.done
    /\ parseCall' = [done |-> TRUE, text |-> parseCall.text,
                     commandName |-> parseCall.commandName,
                     explainMode |-> parseCall.explainMode,
                     result |-> Parse(parseCall.commandName, parseCall.explainMode,
                                      parseCall.text)]
    /\ UNCHANGED <<files, now, cacheOp, keyPair, stream, race>>
    /\ UNCHANGED pipelineVars

NextParse == ApplyParse

SpecParse == InitParse /\ [][NextParse]_vars

-----------------------------------------------------------------------------
(* Cache operations of invocations that run at the same time (two heyman      *)
(* processes and one cache directory), step by step on the file of one        *)
(* fingerprint. saveEntry writes with os.WriteFile, which opens the file with *)
(* O_WRONLY|O_CREATE|O_TRUNC, writes the data and closes it; no lock is taken *)
(* and no temporary file is renamed.                                          *)

\* the fingerprint the operations address
RaceTriple == <<<<"l", "s">>, <<"a">>, <<"m">>>>

RaceKey == GenerateKey(RaceTriple[1], RaceTriple[2], RaceTriple[3])

\* the response of the entry the cache may hold at the start, and the one the
\* Set calls store
OldResponse ==
    [Content |-> <<"l", "s">>, TokensInput |-> 9, TokensOutput |-> 3,
     Model |-> <<"m">>, Provider |-> Ollama, Cached |-> FALSE]

NewResponse ==
    [Content |-> <<"l", "s", " ", "-", "a">>, TokensInput |-> 8, TokensOutput |-> 4,
     Model |-> <<"m">>, Provider |-> OpenAI, Cached |-> FALSE]

RaceOps == {"Get", "Set", "Clear"}

\* an operation that has not started
RaceProc(op) ==
    [op |-> op,
     pc |-> "start",        \* "start", "open", "write", "remove", "done"
     read |-> Absent,       \* Get: what os.ReadFile returned
     entry |-> Nil,         \* the entry saveEntry is given
     fd |-> 0,              \* the file os.WriteFile opened
     dirty |-> FALSE,       \* another writer wrote to that file since
     found |-> FALSE]       \* Get: a response is returned

\* the bytes of an opened file after a truncation: they decode to no Entry
Truncated == Garbage

InitRace ==
    /\ \E held \in {"absent", "entry", "null"} :
          /\ files = [k \in AllKeys |->
                        IF k # RaceKey \/ held = "absent" THEN Absent
                        ELSE IF held = "null" THEN NullResponseDoc(RaceTriple)
                        ELSE CacheSet([x \in AllKeys |-> Absent], 0, RaceTriple[1],
                                      RaceTriple[2], RaceTriple[3], OldResponse,
                                      "ok").files[k]]
          /\ \E ops \in [1..MaxRacers -> RaceOps] :
                race = [procs |-> [p \in 1..MaxRacers |-> RaceProc(ops[p])],
                        inode |-> 1,    \* the file the path names now
                        answer |-> IF held = "entry" THEN OldResponse ELSE Nil]
                                        \* the response of the last Set that was not
                                        \* followed by a deletion
    /\ now = 0
    /\ PipelineAtRest
    /\ cacheOp = NoCacheOp
    /\ keyPair = NoKeyPair
    /\ stream = NoStream
    /\ parseCall = NoParseCall

\* Cache.Get, up to the choice between a miss, a removal and the write of the
\* access metadata: os.ReadFile, json.Unmarshal, isExpired, the nil check
GetRead(p) ==
    LET me == race.procs[p]
        data == files[RaceKey]
        u == Unmarshal(data)
    IN  /\ me.op = "Get"
        /\ me.pc = "start"
        /\ race' = [race EXCEPT !.procs[p] =
              IF data = Absent \/ u.err
              THEN [me EXCEPT !.read = data, !.pc = "done"]
              ELSE IF \/ isExpired(DefaultCacheDays, u.entry.CreatedAt, now)
                      \/ IsNil(u.entry.Response)
              THEN [me EXCEPT !.read = data, !.pc = "remove"]
              ELSE [me EXCEPT !.read = data, !.pc = "open", !.found = TRUE,
                              !.entry = Touch(u.entry, now)]]
        /\ UNCHANGED <<files, now, cacheOp, keyPair, stream, parseCall>>
        /\ UNCHANGED pipelineVars

\* Cache.Get: os.Remove of an expired entry or of one without a response
GetRemove(p) ==
    LET me == race.procs[p] IN
    /\ me.op = "Get"
    /\ me.pc = "remove"
    /\ files' = [files EXCEPT ![RaceKey] = Absent]
    /\ race' = [race EXCEPT !.procs[p].pc = "done", !.answer = Nil]
    /\ UNCHANGED <<now, cacheOp, keyPair, stream, parseCall>>
    /\ UNCHANGED pipelineVars

\* Cache.Set, up to its call of saveEntry: the entry is built
SetBegin(p) ==
    LET me == race.procs[p] IN
    /\ me.op = "Set"
    /\ me.pc = "start"
    /\ race' = [race EXCEPT !.procs[p] =
          [me EXCEPT !.pc = "open",
                     !.entry = [Key |-> RaceKey,
                                Command |-> RaceTriple[1],
                                Question |-> RaceTriple[2],
                                Model |-> RaceTriple[3],
                                Response |-> NewResponse,
                                CreatedAt |-> now,
                                AccessedAt |-> now,
                                AccessCount |-> 1]]]
    /\ UNCHANGED <<files, now, cacheOp, keyPair, stream, parseCall>>
    /\ UNCHANGED pipelineVars

\* saveEntry, of Get or of Set: os.WriteFile opens the file, which creates it
\* when the path names none and truncates it when it names one
WriteOpen(p) ==
    LET me == race.procs[p]
        inode == IF files[RaceKey] = Absent THEN race.inode + 1 ELSE race.inode
    IN  /\ me.op \in {"Get", "Set"}
        /\ me.pc = "open"
        /\ files' = [files EXCEPT ![RaceKey] = Truncated]
        /\ race' = [race EXCEPT !.inode = inode,
                                !.procs[p] = [me EXCEPT !.pc = "write", !.fd = inode,
                                                        !.dirty = FALSE]]
        /\ UNCHANGED <<now, cacheOp, keyPair, stream, parseCall>>
        /\ UNCHANGED pipelineVars

\* saveEntry: os.WriteFile writes the document from offset 0 and closes the
\* file. A file that was removed since it was opened takes the bytes with it;
\* on a file another writer wrote to since, the bytes land over the other
\* document, which gives this document or, when the other is longer, bytes
\* that decode to no Entry
WriteData(p) ==
    LET me == race.procs[p]
        live == files[RaceKey] # Absent /\ me.fd = race.inode
        doc == MarshalIndent(me.entry)
        others == [q \in 1..MaxRacers |->
                     IF q # p /\ live /\ race.procs[q].pc = "write"
                             /\ race.procs[q].fd = me.fd
                     THEN [race.procs[q] EXCEPT !.dirty = TRUE]
                     ELSE race.procs[q]]
    IN  /\ me.op \in {"Get", "Set"}
        /\ me.pc = "write"
        /\ \E written \in (IF ~live THEN {files[RaceKey]}
                            ELSE IF me.dirty THEN {doc, Garbage}
                            ELSE {doc}) :
              files' = [files EXCEPT ![RaceKey] = written]
        /\ race' = [race EXCEPT
                      !.procs = [others EXCEPT ![p] = [me EXCEPT !.pc = "done"]],
                      !.answer = IF me.op = "Set" THEN me.entry.Response ELSE @]
        /\ UNCHANGED <<now, cacheOp, keyPair, stream, parseCall>>
        /\ UNCHANGED pipelineVars

\* Cache.Clear: os.ReadDir lists the files of the cache directory
ClearList(p) ==
    LET me == race.procs[p] IN
    /\ me.op = "Clear"
    /\ me.pc = "start"
    /\ race' = [race EXCEPT !.procs[p].pc =
                   IF files[RaceKey] # Absent THEN "remove" ELSE "done"]
    /\ UNCHANGED <<files, now, cacheOp, keyPair, stream, parseCall>>
    /\ UNCHANGED pipelineVars

\* Cache.Clear: os.Remove of a file that was listed
ClearRemove(p) ==
    LET me == race.procs[p] IN
    /\ me.op = "Clear"
    /\ me.pc = "remove"
    /\ files' = [files EXCEPT ![RaceKey] = Absent]
    /\ race' = [race EXCEPT !.procs[p].pc = "done", !.answer = Nil]
    /\ UNCHANGED <<now, cacheOp, keyPair, stream, parseCall>>
    /\ UNCHANGED pipelineVars

NextRace ==
    \E p \in 1..MaxRacers :
       \/ GetRead(p)
       \/ GetRemove(p)
       \/ SetBegin(p)
       \/ WriteOpen(p)
       \/ WriteData(p)
       \/ ClearList(p)
       \/ ClearRemove(p)

SpecRace == InitRace /\ [][NextRace]_vars

-----------------------------------------------------------------------------
(* Properties of the orchestration, checked under Spec. *)

\* the validator's verdict on a text, for the query in progress
ValidText(content) == Parse(query.command, query.explain, content).Valid

\* every provider call of the query returned text, and text that fails validation
EveryCallInvalid ==
    \A i \in 1..Len(calls) : ~calls[i].err /\ ~ValidText(calls[i].content)

\* the fingerprint of the query in progress
QueryKey == GenerateKey(query.command, query.question, query.model)

\* C1: a query that misses the cache and whose provider returns invalid text on
\* every call ends, after exactly two provider calls (the first and one retry),
\* with the validation error; and no query ever issues a third call.
SingleRetryNoMore ==
    /\ Len(calls) <= 2
    /\ (pc = "done" /\ calls # <<>> /\ EveryCallInvalid)
          => /\ Len(calls) = 2
             /\ calls[2].method = "Query"
             /\ outcome = "unable to generate valid command"

\* a query ended after an invalid first answer and an invalid retry
SingleRetryWitness ==
    /\ pc = "done"
    /\ Len(calls) = 2
    /\ EveryCallInvalid
    /\ outcome = "unable to generate valid command"

\* C2: once parseAndValidate has parsed a response that is marked cached and
\* fails validation, the query is over with the error for an invalid cached
\* response, no provider call was issued, Cache.Set was not called and the cache
\* directory is as it was when parseAndValidate began.
CachedFailureIsTerminal ==
    (~IsNil(resp) /\ resp.Cached /\ pc # "parse" /\ ~ValidText(resp.Content))
       => /\ pc = "done"
          /\ outcome = "cached response invalid"
          /\ calls = <<>>
          /\ sets = <<>>
          /\ files = handed

\* a query ended on an invalid response that came from the cache
CachedFailureWitness ==
    /\ pc = "done"
    /\ ~IsNil(resp) /\ resp.Cached
    /\ ~ValidText(resp.Content)
    /\ outcome = "cached response invalid"

\* C3: Cache.Set is called only with a response whose text the validator
\* accepts, and a query that ended in a validation failure leaves no decodable
\* entry under its fingerprint.
CacheWrittenOnlyOnValidParse ==
    /\ \A i \in 1..Len(sets) : ValidText(sets[i].response.Content)
    /\ (pc = "done" /\ outcome = "unable to generate valid command")
          => files[QueryKey].kind # "json"

\* C4: when the first response failed validation, the retry response validated
\* and both cache writes succeeded, the entry under the query's fingerprint
\* holds the retry response from then on until the query is over.
RetryResponseIsCached ==
    (/\ pc \in {"output", "done"}
     /\ Len(sets) = 2
     /\ ~sets[1].err /\ ~sets[2].err)
       => /\ ~Unmarshal(files[QueryKey]).err
          /\ Unmarshal(files[QueryKey]).entry.Response = retryResp

\* a query finished with a valid retry whose content differs from the first
\* response's, both of them written to the cache
RetryResponseWitness ==
    /\ pc = "done"
    /\ outcome = "ok"
    /\ Len(sets) = 2
    /\ ~sets[1].err /\ ~sets[2].err
    /\ ~ValidText(resp.Content)
    /\ ValidText(retryResp.Content)
    /\ retryResp.Content # resp.Content

\* C10: the response queryWithCache returns is marked cached exactly when it
\* came from Cache.Get, and the retry response is never marked cached.
CachedIffFromCache ==
    /\ ~IsNil(resp) => (resp.Cached <=> origin = "cache")
    /\ ~IsNil(retryResp) => ~retryResp.Cached

\* a query was answered from the cache
CachedWitness ==
    /\ ~IsNil(resp)
    /\ origin = "cache"
    /\ resp.Cached

-----------------------------------------------------------------------------
(* Properties of the cache store, checked under SpecCache. *)

\* the strings of a response hold no byte that is not valid UTF-8
ValidUTF8(r) ==
    \A f \in {r.Content, r.Model, r.Provider} : \A i \in 1..Len(f) : f[i] # InvalidByte

\* the last operation is a Get that directly follows a successful Set of the
\* same triple, whose entry has not expired
GetAfterSet ==
    /\ cacheOp.last.op = "Get"
    /\ cacheOp.prev.op = "Set"
    /\ ~cacheOp.prev.err
    /\ cacheOp.prev.triple = cacheOp.last.triple
    /\ ~isExpired(cacheOp.days, cacheOp.prev.at, cacheOp.last.at)

\* the Get is a hit that returns the response given to Set, marked cached
ReturnsWhatWasSet ==
    /\ cacheOp.last.found
    /\ cacheOp.last.response = [cacheOp.prev.response EXCEPT !.Cached = TRUE]

\* C6, as stated: Set(t,q,m,R) followed by Get(t,q,m), the entry not expired and
\* nothing in between, is a hit whose response equals R in Content, TokensInput,
\* TokensOutput, Model and Provider, with Cached = true; for every R.
CacheRoundTrip == GetAfterSet => ReturnsWhatWasSet

\* C6, amended: the same, for every R whose Content, Model and Provider are
\* valid UTF-8.
CacheRoundTripValidUTF8 ==
    (GetAfterSet /\ ValidUTF8(cacheOp.prev.response)) => ReturnsWhatWasSet

\* a Get hit the entry a Set had just written, a day later
CacheRoundTripWitness ==
    /\ GetAfterSet
    /\ ValidUTF8(cacheOp.prev.response)
    /\ cacheOp.last.found
    /\ cacheOp.last.at > cacheOp.prev.at

\* the file Get found cannot be decoded, or decodes to an entry without a response
StructurallyInvalid(data) ==
    \/ data = Garbage
    \/ data.kind = "json" /\ IsNil(data.response)

\* C7: when the file at the fingerprint is structurally invalid, Get reports a
\* miss and the file no longer exists after Get returns.
CorruptedEntrySelfHeals ==
    (cacheOp.last.op = "Get" /\ StructurallyInvalid(cacheOp.last.before))
       => /\ ~cacheOp.last.found
          /\ cacheOp.last.after = Absent

\* C8: Get treats a decodable entry as expired exactly when the max age is
\* positive and the time is later than the creation time plus max-age days; an
\* expired entry is a miss and its file is deleted by that Get; with a zero or
\* negative max age no entry is treated as expired.
ExpiryRule ==
    (cacheOp.last.op = "Get" /\ cacheOp.last.before.kind = "json")
       => LET created == cacheOp.last.before.created_at
              past == /\ cacheOp.days > 0
                      /\ cacheOp.last.at > created + cacheOp.days
          IN  /\ (cacheOp.last.branch = "expired") <=> past
              /\ (cacheOp.last.branch = "expired")
                    => ~cacheOp.last.found /\ cacheOp.last.after = Absent
              /\ cacheOp.days <= 0 => cacheOp.last.branch # "expired"

-----------------------------------------------------------------------------
(* Properties of GenerateKey, checked under SpecKey. *)

\* C9: two distinct (command, question, model) triples get distinct keys, also
\* when a field holds the ':' delimiter.
KeysSeparateTriples ==
    (keyPair.applied /\ keyPair.a # keyPair.b) => keyPair.keyA # keyPair.keyB

-----------------------------------------------------------------------------
(* Properties of progressive mode, checked under SpecStream. *)

\* C5: whenever the producer has sent an error on the error channel,
\* executeStreamingQuery returns an error, and never a response built from the
\* partial buffer (text it accumulated without receiving a chunk with
\* IsComplete).
NoPartialResult ==
    (stream.cpc = "returned" /\ stream.errSent /\ ~stream.sawComplete
        /\ stream.content # <<>>)
       => stream.result.kind = "error"

\* the event that reports the token counts ends the call: the backend sends
\* nothing after it and does not fail after it
DoneEndsCall(events, fail) ==
    \A i \in 1..Len(events) : events[i].type = "done" => (i = Len(events) /\ ~fail)

\* C11: for each adapter and each sequence of backend events (here those in
\* which the event that reports the token counts, if there is one, ends the
\* call, in a call that is not cancelled), what
\* executeStreamingQuery returns equals what the blocking Query returns on the
\* same events: an error in both, or responses with the same Content,
\* TokensInput and TokensOutput.
StreamingEquivalence ==
    (stream.cpc = "returned" /\ DoneEndsCall(stream.backend, stream.fail)
        /\ ~stream.cancelled)
       => LET blocking == BlockingQuery(stream.adapter, stream.backend, stream.fail, <<"m">>)
              streamed == stream.result
          IN  /\ streamed.kind = blocking.kind
              /\ streamed.kind = "response"
                    => /\ streamed.response.Content = blocking.response.Content
                       /\ streamed.response.TokensInput = blocking.response.TokensInput
                       /\ streamed.response.TokensOutput = blocking.response.TokensOutput

\* C12: a producer that has finished emitted either exactly one chunk with
\* IsComplete, as its last chunk and without an error, or an error and no chunk
\* with IsComplete.
ExactlyOneOfTerminalOrError ==
    stream.ppc = "exited"
       => LET terminals == {i \in 1..Len(stream.emitted) : stream.emitted[i].IsComplete}
          IN  \/ /\ Cardinality(terminals) = 1
                 /\ stream.emitted[Len(stream.emitted)].IsComplete
                 /\ ~stream.errSent
              \/ /\ terminals = {}
                 /\ stream.errSent

\* C13: when the chunk channel was closed, no chunk with IsComplete was
\* received and no error was sent, executeStreamingQuery returns an error.
SilentEndIsAnError ==
    (/\ stream.cpc = "returned"
     /\ stream.chunkClosed
     /\ ~stream.sawComplete
     /\ ~stream.errSent)
       => stream.result.kind = "error"

-----------------------------------------------------------------------------
(* Properties of the response parser, checked under SpecParse. *)

\* the raw text of the call, trimmed and without its code-fence markers
StrippedText == TrimSpace(stripMarkdownCodeBlocks(TrimSpace(parseCall.text)))

\* a line of the raw text as explain mode reads it: trimmed and without markers
CleanLine(line) == TrimSpace(stripMarkdownCodeBlocks(TrimSpace(line)))

\* the least element of a non-empty set of numbers
Least(S) == CHOOSE i \in S : \A j \in S : i <= j

\* the call is over, was made in the given mode, and its text has no refusal
ParsedWithoutRefusal(explainMode) ==
    /\ parseCall.done
    /\ parseCall.explainMode = explainMode
    /\ ~Contains(parseCall.text, RefusalPhrase)

\* C14: in command-only mode, for a text without the refusal phrase, Parse
\* returns Valid exactly when the trimmed and stripped text starts with the tool
\* name, and the Command is then the first non-empty line of that text that
\* starts with the tool name.
DefaultModeValidator ==
    ParsedWithoutRefusal(FALSE)
       => LET lines == SplitLines(StrippedText)
              starts == {i \in 1..Len(lines) :
                            /\ TrimSpace(lines[i]) # <<>>
                            /\ HasPrefix(TrimSpace(lines[i]), parseCall.commandName)}
          IN  /\ parseCall.result.Valid <=> HasPrefix(StrippedText, parseCall.commandName)
              /\ parseCall.result.Valid
                    => /\ starts # {}
                       /\ parseCall.result.Command = TrimSpace(lines[Least(starts)])

\* a text of several lines inside a code fence was accepted in command-only mode
DefaultModeWitness ==
    /\ ParsedWithoutRefusal(FALSE)
    /\ parseCall.result.Valid
    /\ Contains(parseCall.text, Fence)
    /\ Len(SplitLines(StrippedText)) > 1
    /\ parseCall.result.Command # StrippedText

\* the first whitespace-delimited token of a text
RECURSIVE FirstToken(_)
FirstToken(s) ==
    IF s = <<>> \/ Head(s) \in WhiteSpace THEN <<>>
    ELSE <<Head(s)>> \o FirstToken(Tail(s))

\* C15: in both modes, Parse returns Valid only when the first
\* whitespace-delimited token of the Command equals the tool name.
ExactToolNameToken ==
    (parseCall.done /\ parseCall.result.Valid)
       => FirstToken(parseCall.result.Command) = parseCall.commandName

\* C16: in both modes, a text that contains the refusal sentinel gives
\* Valid = false with the not-found error and an empty Command, whatever else
\* the text holds.
RefusalShortCircuit ==
    (parseCall.done /\ Contains(parseCall.text, RefusalPhrase))
       => /\ ~parseCall.result.Valid
          /\ parseCall.result.Error = ErrNotFound
          /\ parseCall.result.Command = <<>>

\* a text that starts with the tool name and holds the refusal sentinel was
\* parsed in explain mode
RefusalWitness ==
    /\ parseCall.done
    /\ parseCall.explainMode
    /\ Contains(parseCall.text, RefusalPhrase)
    /\ HasPrefix(TrimSpace(parseCall.text), parseCall.commandName)
    /\ ~parseCall.result.Valid

\* C17: in explain mode, for a text without the refusal phrase, the result is
\* invalid exactly when no line starts with the tool name; otherwise the
\* Command is the first line that, stripped, starts with the tool name, and the
\* Explanation is the non-empty lines after it, trimmed, in their order and
\* joined with newlines.
ExplainModeValidator ==
    ParsedWithoutRefusal(TRUE)
       => LET lines == SplitLines(TrimSpace(parseCall.text))
              starts == {i \in 1..Len(lines) :
                            HasPrefix(CleanLine(lines[i]), parseCall.commandName)}
          IN  /\ ~parseCall.result.Valid <=> starts = {}
              /\ parseCall.result.Valid
                    => LET first == Least(starts)
                           after == [j \in 1..(Len(lines) - first) |->
                                        TrimSpace(lines[first + j])]
                           NonEmpty(l) == l # <<>>
                       IN  /\ parseCall.result.Command = CleanLine(lines[first])
                           /\ parseCall.result.Explanation =
                                 JoinLines(SelectSeq(after, NonEmpty))

\* explain mode dropped a line before the command and kept one after it
ExplainModeWitness ==
    /\ ParsedWithoutRefusal(TRUE)
    /\ parseCall.result.Valid
    /\ parseCall.result.Explanation # <<>>
    /\ ~HasPrefix(TrimSpace(parseCall.text), parseCall.commandName)

\* C18: Parse returns either Valid = true with a non-empty Command that holds
\* no newline and a nil Error, or Valid = false with an empty Command, an empty
\* Explanation and a non-nil Error.
ParsedResponseInvariant ==
    parseCall.done
       => LET r == parseCall.result IN
          \/ /\ r.Valid
             /\ r.Command # <<>>
             /\ \A i \in 1..Len(r.Command) : r.Command[i] # "\n"
             /\ r.Error = NoError
          \/ /\ ~r.Valid
             /\ r.Command = <<>>
             /\ r.Explanation = <<>>
             /\ r.Error # NoError

\* a text that holds the tool name, but on no line at its start, was rejected
ParsedResponseWitness ==
    /\ parseCall.done
    /\ Contains(parseCall.text, parseCall.commandName)
    /\ ~parseCall.result.Valid
    /\ parseCall.result.Error = ErrNoCommand

-----------------------------------------------------------------------------
(* Frame properties of the cache store, checked under SpecCache. *)

\* the step is a Set that returned no error
SetStep ==
    /\ cacheOp'.n = cacheOp.n + 1
    /\ cacheOp'.last.op = "Set"
    /\ ~cacheOp'.last.err

\* after the step the file of the triple decodes to an entry with the response
\* given to Set, access count 1 and both times equal to the time of the write,
\* and every other file is as it was
SetPost ==
    LET t == cacheOp'.last.triple
        k == GenerateKey(t[1], t[2], t[3])
        u == Unmarshal(files'[k])
    IN  /\ ~u.err
        /\ u.entry.Key = k
        /\ u.entry.Response = cacheOp'.last.response
        /\ u.entry.AccessCount = 1
        /\ u.entry.CreatedAt = now
        /\ u.entry.AccessedAt = now
        /\ \A other \in AllKeys \ {k} : files'[other] = files[other]

\* C19, as stated: after a successful Set(t,q,m,R), whatever entry existed
\* before, the store holds one entry for the fingerprint, with response R,
\* access count 1 and creation and last-access time equal to the write time,
\* and the entries of other fingerprints are unchanged; for every R.
SetReinitialises == [][SetStep => SetPost]_vars

\* C19, amended: the same, for every R whose Content, Model and Provider are
\* valid UTF-8.
SetReinitialisesValidUTF8 ==
    [][(SetStep /\ ValidUTF8(cacheOp'.last.response)) => SetPost]_vars

\* a Set replaced, a day or more later, an entry that held another response
SetOverwritesWitness ==
    /\ cacheOp.last.op = "Set"
    /\ ~cacheOp.last.err
    /\ ValidUTF8(cacheOp.last.response)
    /\ cacheOp.last.before.kind = "json"
    /\ ~IsNil(cacheOp.last.before.response)
    /\ cacheOp.last.before.created_at < cacheOp.last.at
    /\ cacheOp.last.before.response # cacheOp.last.after.response

\* the step is a Get
GetStep ==
    /\ cacheOp'.n = cacheOp.n + 1
    /\ cacheOp'.last.op = "Get"

\* the stored entry after a hit is the entry before it, with the access count
\* raised by one and the last-access time set to the time of the Get; every
\* other file is as it was
HitPost ==
    LET t == cacheOp'.last.triple
        k == GenerateKey(t[1], t[2], t[3])
        old == Unmarshal(files[k])
        new == Unmarshal(files'[k])
    IN  /\ ~old.err /\ ~new.err
        /\ new.entry = [old.entry EXCEPT !.AccessCount = old.entry.AccessCount + 1,
                                         !.AccessedAt = now]
        /\ \A other \in AllKeys \ {k} : files'[other] = files[other]

\* a miss leaves every file as it was or removes it
MissPost == \A k \in AllKeys : files'[k] = files[k] \/ files'[k] = Absent

-----------------------------------------------------------------------------
(* Errors, flags and metadata of the orchestration, checked under Spec. *)

\* C21: a query whose first provider call (Query or StreamQuery) ends in an
\* error ends with that error, after that one call and with no cache write and
\* no change to the cache files; and a query whose retry call ends in an error
\* ends with the retry error, after those two calls.
ProviderErrorIsTerminal ==
    /\ (Len(calls) >= 1 /\ calls[1].err)
          => /\ pc = "done"
             /\ Len(calls) = 1
             /\ outcome = "LLM query failed"
             /\ sets = <<>>
             /\ files = handed
    /\ (Len(calls) >= 2 /\ calls[2].err)
          => /\ pc = "done"
             /\ Len(calls) = 2
             /\ outcome = "LLM retry failed"

\* a query ended on the error of its first call, a streaming one
ProviderErrorWitness ==
    /\ pc = "done"
    /\ Len(calls) = 1
    /\ calls[1].err
    /\ calls[1].method = "StreamQuery"
    /\ outcome = "LLM query failed"

-----------------------------------------------------------------------------
(* Dispatch, blocking and cancellation in progressive mode, checked under     *)
(* SpecStream.                                                                *)

ProducerNeverBlocked ==
    (stream.cpc = "returned" /\ stream.method = "StreamQuery")
       => (stream.ppc = "exited" \/ ENABLED NextStream)

HoldsResponse(data) ==
    /\ ~Unmarshal(data).err
    /\ ~IsNil(Unmarshal(data).entry.Response)

\* C23: in a query with the no-cache flag, queryWithCache does not call
\* Cache.Get: the cache files are as the query found them when the provider is
\* called, and the response of the query is the one built from the first
\* provider call of this invocation, with Cached = FALSE.
NoCacheBypassesCache ==
    (query # NoQuery /\ query.noCache)
       => /\ origin # "cache"
          /\ pc \in {"get", "execute"} => files = handed
          /\ resp # NoResponse
                => /\ ~resp.Cached
                   /\ calls # <<>>
                   /\ ~calls[1].err
                   /\ resp.Content = calls[1].content

\* a query with the no-cache flag got its response from the provider although
\* the cache held an entry with a response for its fingerprint
NoCacheWitness ==
    /\ query # NoQuery
    /\ query.noCache
    /\ pc = "set"
    /\ HoldsResponse(files[QueryKey])
    /\ ~resp.Cached

OutputArguments == [parsed |-> parsed, resp |-> resp]

\* C28: in a run that ends well, the response handed to outputResult is the
\* one whose Content was parsed into the command that is printed.
MetadataOfParsedResponse ==
    (pc = "done" /\ outcome = "ok")
       => Parse(query.command, query.explain, OutputArguments.resp.Content)
             = OutputArguments.parsed

\* C29: a query without the no-cache flag is served whatever entry with a
\* response the cache holds under GenerateKey(tool, question, model), whichever
\* mode, section or provider wrote it: it reaches the provider call only when
\* the file of its fingerprint holds no such entry; and a response served from
\* the cache is parsed in the mode of the query it is served to.
CacheHitDependsOnTripleOnly ==
    /\ (query # NoQuery /\ ~query.noCache /\ pc = "execute")
          => ~HoldsResponse(files[QueryKey])
    /\ (origin = "cache" /\ pc \in {"output", "done"})
          => /\ resp.Cached
             /\ resp.Model = query.model
             /\ parsed = Parse(query.command, query.explain, resp.Content)

\* an entry written by a query to one provider was served to a query to the
\* other provider, in explain mode and for a man-page section, and the text
\* that only explain mode accepts gave the command
CrossModeHitWitness ==
    /\ origin = "cache"
    /\ pc = "done"
    /\ outcome = "ok"
    /\ resp.Provider # query.provider
    /\ query.explain
    /\ query.section # <<>>
    /\ ~parseDefaultMode(query.command, TrimSpace(resp.Content)).Valid

-----------------------------------------------------------------------------
(* Properties of concurrent cache operations, checked under SpecRace. *)

\* C24: a Get that runs while a Set, or the write of the access metadata of
\* another Get, is under way on the same fingerprint reads a complete entry or
\* no file, never a partially written file.
GetNeverReadsPartialFile ==
    \A p \in DOMAIN race.procs :
       (race.procs[p].op = "Get" /\ race.procs[p].pc # "start")
          => race.procs[p].read # Truncated

\* a Get ran together with at most one Set or Clear, and all of them have
\* finished
GetRaceFinished ==
    /\ race.procs # <<>>
    /\ \E p \in DOMAIN race.procs : race.procs[p].op = "Get"
    /\ Cardinality({p \in DOMAIN race.procs : race.procs[p].op # "Get"}) <= 1
    /\ \A p \in DOMAIN race.procs : race.procs[p].pc = "done"

=============================================================================
